---- MODULE Spec2Model ----
(***************************************************************************)
(* A model of do-device's credential store (pwdecrypt.py,                  *)
(* SSH_pwdecrypt.py, SNMP_pwdecrypt.py) and of the console automation of   *)
(* do-oob-device.py / do-device.py.                                        *)
(*                                                                         *)
(* Text is a sequence of atoms.  An atom stands for a run of characters    *)
(* that the code never looks inside ("admin", "NET1"), or for one of the   *)
(* characters the code does look at (";", "*", "#", " ", "/").  A marker   *)
(* the code searches for that may arrive split over two reads is two       *)
(* atoms ("Conn","ection").  Substring tests, split, lstrip and startswith *)
(* are computed on these sequences.                                        *)
(***************************************************************************)
EXTENDS Integers, Sequences, FiniteSets, TLC

(***************************************************************************)
(* Bounds of the model.                                                    *)
(***************************************************************************)
MaxRealmLines == 1
MaxDevLines == 2
\* chunks the channel of one console line delivers
MaxChunks == 3
\* rows of the reply to 'show line'
MaxRows == 2
\* lines of the script of do-device
MaxScript == 2
\* rows of a reply to 'show line' given to the enumeration on its own
MaxReplyRows == 3
\* characters of a secret
MaxSecret == 2
\* parts of an interface name
MaxName == 3

(***************************************************************************)
(* Text primitives (Python str methods used by the code).                  *)
(***************************************************************************)
RECURSIVE count(_, _)
count(s, a) ==
  IF s = <<>> THEN 0
  ELSE (IF Head(s) = a THEN 1 ELSE 0) + count(Tail(s), a)

RECURSIVE splitAcc(_, _, _)
splitAcc(s, a, cur) ==
  IF s = <<>> THEN <<cur>>
  ELSE IF Head(s) = a THEN <<cur>> \o splitAcc(Tail(s), a, <<>>)
  ELSE splitAcc(Tail(s), a, Append(cur, Head(s)))

split(s, a) == splitAcc(s, a, <<>>)

RECURSIVE lstrip(_)
lstrip(s) ==
  IF s # <<>> /\ Head(s) \in {" ", "\n"} THEN lstrip(Tail(s)) ELSE s

RECURSIVE rstripNL(_)
rstripNL(s) ==
  IF s # <<>> /\ s[Len(s)] = "\n" THEN rstripNL(SubSeq(s, 1, Len(s) - 1)) ELSE s

startswith(s, a) == s # <<>> /\ Head(s) = a

\* needle in hay (Python's substring test)
Contains(needle, hay) ==
  \E k \in 0..(Len(hay) - Len(needle)) :
    SubSeq(hay, k + 1, k + Len(needle)) = needle

(***************************************************************************)
(* Envelope cipher.  A Fernet token is "gAAAAA" followed by the key it was *)
(* sealed with and the bytes of the plaintext; anything else fails to      *)
(* decrypt.  Each module carries its own copy of the key.                  *)
(***************************************************************************)
CRYPTKEY == "Vn3x5ZiaL8Tg7NU1f3TlZRYXHnVslrgQUISQIa8n5Bg="
pwencrypt_CRYPTKEY == "Vn3x5ZiaL8Tg7NU1f3TlZRYXHnVslrgQUISQIa8n5Bg="
SSH_CRYPTKEY == "Vn3x5ZiaL8Tg7NU1f3TlZRYXHnVslrgQUISQIa8n5Bg="
SNMP_CRYPTKEY == "Vn3x5ZiaL8Tg7NU1f3TlZRYXHnVslrgQUISQIa8n5Bg="

\* A value or a raised exception.
Ok(v) == [exc |-> "", val |-> v]
Raise(e) == [exc |-> e, val |-> <<>>]

\* UTF-8: the characters outside ASCII take two bytes, every other atom
\* is a run of ASCII characters and is its own encoding
TwoBytes == [c \in {"U+00FC", "U+00E9"} |-> IF c = "U+00FC" THEN <<"0xC3", "0xBC">>
                                  ELSE <<"0xC3", "0xA9">>]

\* str.encode('utf-8')
RECURSIVE utf8_encode(_)
utf8_encode(s) ==
  IF s = <<>> THEN <<>>
  ELSE (IF Head(s) \in DOMAIN TwoBytes THEN TwoBytes[Head(s)] ELSE <<Head(s)>>)
       \o utf8_encode(Tail(s))

\* bytes.decode('utf-8')
RECURSIVE utf8_decode(_)
utf8_decode(b) ==
  IF b = <<>> THEN Ok(<<>>)
  ELSE IF Head(b) = "0xC3"
       THEN IF Len(b) >= 2 /\ \E c \in DOMAIN TwoBytes : TwoBytes[c] = SubSeq(b, 1, 2)
            THEN LET c == CHOOSE c \in DOMAIN TwoBytes : TwoBytes[c] = SubSeq(b, 1, 2)
                     rest == utf8_decode(SubSeq(b, 3, Len(b)))
                 IN IF rest.exc # "" THEN rest ELSE Ok(<<c>> \o rest.val)
            ELSE Raise("UnicodeDecodeError")
       ELSE IF Head(b) \in {"0xBC", "0xA9", "0xFF"} THEN Raise("UnicodeDecodeError")
       ELSE LET rest == utf8_decode(Tail(b))
            IN IF rest.exc # "" THEN rest ELSE Ok(<<Head(b)>> \o rest.val)

\* Fernet(key).encrypt(data), the token in its text form
fernet_encrypt(key, data) == <<"gAAAAA", key>> \o data

\* Fernet(key).decrypt(token)
fernet_decrypt(key, token) ==
  IF Len(token) >= 2 /\ token[1] = "gAAAAA" /\ token[2] = key
  THEN Ok(SubSeq(token, 3, Len(token)))
  ELSE Raise("InvalidToken")

\* pwencrypt.py: the token of a password, printed as text
encrypt_password(password) ==
  fernet_encrypt(pwencrypt_CRYPTKEY, utf8_encode(password))

\* Fernet(key).decrypt(crypted.encode('utf-8')).decode('utf-8')
decrypt_with(key, crypted) ==
  LET decrypt == fernet_decrypt(key, crypted)
  IN IF decrypt.exc # "" THEN decrypt ELSE utf8_decode(decrypt.val)

\* a module whose key is not the one the tokens were made with
decrypt_password_otherkey(crypted) == decrypt_with("otherkey", crypted)

decrypt_password(crypted) == decrypt_with(CRYPTKEY, crypted)

SSH_decrypt_password(crypted) == decrypt_with(SSH_CRYPTKEY, crypted)

SNMP_decrypt_password(crypted) == decrypt_with(SNMP_CRYPTKEY, crypted)

ENC(plain) == encrypt_password(plain)

(***************************************************************************)
(* Realm tables: dictionaries are functions; the empty dictionary is <<>>. *)
(***************************************************************************)
DictSet(d, k, v) == [n \in DOMAIN d \cup {k} |-> IF n = k THEN v ELSE d[n]]

\* pwdecrypt.py read_credentials, the body of the loop for one line:
\* the realms after the line, or the exception the line raises.
realm_line(realms, line) ==
  LET curline == rstripNL(lstrip(line)) IN
  IF ~(Len(curline) > 0 /\ ~startswith(curline, "#")) THEN Ok(realms)
  ELSE IF count(curline, ";") # 3 THEN Ok(realms)
  ELSE
    LET f == split(curline, ";")
        myrealm == f[1]
        username == f[2]
        pw == decrypt_password(f[3])
    IN IF pw.exc # "" THEN pw
       ELSE
         LET password == pw.val
             sec == IF f[4] = <<"*">> THEN Ok(password) ELSE decrypt_password(f[4])
         IN IF sec.exc # "" THEN sec
            ELSE IF username = <<>> \/ password = <<>> \/ sec.val = <<>>
                 THEN Ok(realms)
                 ELSE Ok(DictSet(realms, myrealm,
                         [username |-> username, password |-> password,
                          secret |-> sec.val]))

RECURSIVE realm_loop(_, _)
realm_loop(realms, lines) ==
  IF lines = <<>> THEN Ok(realms)
  ELSE LET r == realm_line(realms, Head(lines)) IN
       IF r.exc # "" THEN r ELSE realm_loop(r.val, Tail(lines))

\* read_credentials: file is [readable, lines]; the result value is
\* [none |-> TRUE] for None and [none |-> FALSE, realms |-> d] otherwise.
None == [none |-> TRUE, realms |-> <<>>]
Some(d) == [none |-> FALSE, realms |-> d]

read_credentials_keep_empty(file) ==
  IF ~file.readable THEN Ok(None)
  ELSE LET r == realm_loop(<<>>, file.lines) IN
       IF r.exc # "" THEN r ELSE Ok(Some(r.val))

read_credentials(file) ==
  IF ~file.readable THEN Ok(None)
  ELSE LET r == realm_loop(<<>>, file.lines) IN
       IF r.exc # "" THEN r
       ELSE IF DOMAIN r.val = {} THEN Ok(None)
       ELSE Ok(Some(r.val))

(***************************************************************************)
(* Device tables (pwdecrypt.py and SSH_pwdecrypt.py share the schema).     *)
(***************************************************************************)
\* int(ssh_port) on the port fields the tables of the model use
int(f) ==
  IF f = <<"22">> THEN Ok(22)
  ELSE IF f = <<"2222">> THEN Ok(2222)
  ELSE Raise("ValueError")

\* pwdecrypt.py: my_realm = realms[field]; field = my_realm[key]
realm_ref_password(realms, field, key) ==
  IF field \in DOMAIN realms THEN Ok(realms[field]["password"])
  ELSE Raise("KeyError")

realm_ref(realms, field, key) ==
  IF field \in DOMAIN realms THEN Ok(realms[field][key]) ELSE Raise("KeyError")

\* SSH_pwdecrypt.py: an unknown realm is warned about and the field emptied
SSH_realm_ref(realms, field, key) ==
  IF field \in DOMAIN realms THEN Ok(realms[field][key]) ELSE Ok(<<>>)

\* the lookup of the module in use ("pw": pwdecrypt.py, "SSH": SSH_pwdecrypt.py)
ref(variant, realms, field, key) ==
  IF variant = "SSH" THEN SSH_realm_ref(realms, field, key)
  ELSE realm_ref(realms, field, key)

\* The three results of read_deviceinfo: None, '' and a credential dictionary.
NoCred == [ip |-> <<>>, device_type |-> <<>>, username |-> <<>>,
           password |-> <<>>, secret |-> <<>>]
RetNone(port) == [exc |-> "", kind |-> "None", cred |-> NoCred, port |-> port]
RetEmpty(port) == [exc |-> "", kind |-> "Empty", cred |-> NoCred, port |-> port]
RetCreds(c, port) == [exc |-> "", kind |-> "Creds", cred |-> c, port |-> port]
RetRaise(e) == [exc |-> e, kind |-> "Exc", cred |-> NoCred, port |-> 0]
\* the loop goes on to the next line
Continue(port) == [exc |-> "", kind |-> "Continue", cred |-> NoCred, port |-> port]

\* the fields of one device line resolved: username, then password, then secret
resolve_fields(variant, realms, f) ==
  LET u == IF Len(f[4]) > 0 /\ startswith(f[4], "*")
           THEN ref(variant, realms, f[4], "username") ELSE Ok(f[4])
      p == IF Len(f[5]) > 0 /\ startswith(f[5], "*")
           THEN ref(variant, realms, f[5], "password")
           ELSE IF Len(f[5]) > 0 THEN decrypt_password(f[5]) ELSE Ok(f[5])
      s == IF Len(f[6]) > 0 /\ startswith(f[6], "*")
           THEN ref(variant, realms, f[6], "secret")
           ELSE IF Len(f[6]) > 0 THEN decrypt_password(f[6]) ELSE Ok(f[6])
  IN IF u.exc # "" THEN u
     ELSE IF p.exc # "" THEN p
     ELSE IF s.exc # "" THEN s
     ELSE Ok([username |-> u.val, password |-> p.val, secret |-> s.val])

\* read_deviceinfo, the body of the loop for one line
device_line(variant, realms, device, line, ssh_port) ==
  LET curline == rstripNL(lstrip(line))
      n_semicolon == count(curline, ";")
  IN
  IF ~(Len(curline) > 0 /\ ~startswith(curline, "#")) THEN Continue(ssh_port)
  ELSE IF n_semicolon # 5 /\ n_semicolon # 6 THEN Continue(ssh_port)
  ELSE
    LET f == split(curline, ";")
        prt == IF n_semicolon = 6 THEN int(f[7]) ELSE Ok(22)
    IN IF prt.exc # "" THEN RetRaise(prt.exc)
       ELSE
         LET curdevice == f[1]
             ip == IF f[2] = <<>> THEN curdevice ELSE f[2]
             r == resolve_fields(variant, realms, f)
         IN IF r.exc # "" THEN RetRaise(r.exc)
            ELSE IF curdevice # device THEN Continue(prt.val)
            ELSE IF r.val.username = <<>> \/ r.val.password = <<>>
                    \/ r.val.secret = <<>>
                 THEN RetEmpty(prt.val)
                 ELSE RetCreds([ip |-> ip, device_type |-> f[3],
                                username |-> r.val.username,
                                password |-> r.val.password,
                                secret |-> r.val.secret], prt.val)

\* a loop that reads the whole table and lets the last line of the device
\* decide
RECURSIVE device_loop_last(_, _, _, _, _)
device_loop_last(variant, realms, device, lines, ssh_port) ==
  IF lines = <<>> THEN RetNone(ssh_port)
  ELSE LET r == device_line(variant, realms, device, Head(lines), ssh_port) IN
       IF r.kind = "Continue"
       THEN device_loop_last(variant, realms, device, Tail(lines), r.port)
       ELSE LET later == device_loop_last(variant, realms, device,
                                          Tail(lines), ssh_port)
            IN IF later.kind = "None" THEN r ELSE later

RECURSIVE device_loop(_, _, _, _, _)
device_loop(variant, realms, device, lines, ssh_port) ==
  IF lines = <<>> THEN RetNone(ssh_port)
  ELSE LET r == device_line(variant, realms, device, Head(lines), ssh_port) IN
       IF r.kind = "Continue"
       THEN device_loop(variant, realms, device, Tail(lines), r.port)
       ELSE r

read_deviceinfo(file, realms, device) ==
  IF ~file.readable THEN RetNone(22)
  ELSE device_loop("pw", realms, device, file.lines, 22)

SSH_read_deviceinfo(file, realms, device) ==
  IF ~file.readable THEN RetNone(22)
  ELSE device_loop("SSH", realms, device, file.lines, 22)

\* The store: env is "unset" (no DO_DEVICE), "nodir" (not a directory) or
\* "dir"; the two files of the directory.
\* pwdecrypt.py get_credentials: ssh_port is not bound on the early returns.
get_credentials(store, device) ==
  IF store.env = "unset" THEN RetRaise("UnboundLocalError")
  ELSE IF store.env = "nodir" THEN RetRaise("UnboundLocalError")
  ELSE LET realms == read_credentials(store.credentials) IN
       IF realms.exc # "" THEN RetRaise(realms.exc)
       ELSE IF realms.val.none THEN RetRaise("UnboundLocalError")
       ELSE read_deviceinfo(store.deviceinfo, realms.val.realms, device)

\* SSH_pwdecrypt.py get_credentials: ssh_port = 22 first
SSH_get_credentials(store, device) ==
  IF store.env = "unset" THEN RetNone(22)
  ELSE IF store.env = "nodir" THEN RetNone(22)
  ELSE LET realms == read_credentials(store.credentials) IN
       IF realms.exc # "" THEN RetRaise(realms.exc)
       ELSE IF realms.val.none THEN RetNone(22)
       ELSE SSH_read_deviceinfo(store.deviceinfo, realms.val.realms, device)

(***************************************************************************)
(* SNMP_pwdecrypt.py: realms are (community, port); a device line is       *)
(* device;ipaddr;community;port.                                           *)
(***************************************************************************)
SNMP_realm_line(realms, line) ==
  LET curline == rstripNL(lstrip(line)) IN
  IF ~(Len(curline) > 0 /\ ~startswith(curline, "#")) THEN Ok(realms)
  ELSE IF count(curline, ";") # 2 THEN Ok(realms)
  ELSE
    LET f == split(curline, ";")
        community == decrypt_password(f[2])
        port == IF f[3] = <<"*">> THEN <<"161">> ELSE f[3]
    IN IF community.exc # "" THEN community
       ELSE Ok(DictSet(realms, f[1],
                       [community |-> community.val, port |-> port]))

RECURSIVE SNMP_realm_loop(_, _)
SNMP_realm_loop(realms, lines) ==
  IF lines = <<>> THEN Ok(realms)
  ELSE LET r == SNMP_realm_line(realms, Head(lines)) IN
       IF r.exc # "" THEN r ELSE SNMP_realm_loop(r.val, Tail(lines))

SNMP_read_credentials(file) ==
  IF ~file.readable THEN Ok(None)
  ELSE LET r == SNMP_realm_loop(<<>>, file.lines) IN
       IF r.exc # "" THEN r
       ELSE IF DOMAIN r.val = {} THEN Ok(None)
       ELSE Ok(Some(r.val))

\* str.isnumeric() on the port fields the tables of the model use
isnumeric(f) == f \in {<<"161">>, <<"22">>, <<"2222">>}

SNMP_NoCred == [hostname |-> <<>>, ipaddr |-> <<>>, community |-> <<>>,
                port |-> <<>>]
SNMP_Ret(kind, c) == [exc |-> "", kind |-> kind, cred |-> c, port |-> 0]
SNMP_Raise(e) == [exc |-> e, kind |-> "Exc", cred |-> SNMP_NoCred, port |-> 0]

SNMP_device_line(realms, device, line) ==
  LET curline == rstripNL(lstrip(line)) IN
  IF ~(Len(curline) > 0 /\ ~startswith(curline, "#"))
  THEN SNMP_Ret("Continue", SNMP_NoCred)
  ELSE IF count(curline, ";") # 3 THEN SNMP_Ret("Continue", SNMP_NoCred)
  ELSE
    LET f == split(curline, ";")
        curdevice == f[1]
        community == IF Len(f[3]) > 0 /\ startswith(f[3], "*")
                     THEN realm_ref(realms, f[3], "community")
                     ELSE IF Len(f[3]) > 0 THEN decrypt_password(f[3])
                     ELSE Ok(f[3])
        port == IF Len(f[4]) > 0 /\ startswith(f[4], "*")
                THEN realm_ref(realms, f[4], "port") ELSE Ok(f[4])
    IN IF community.exc # "" THEN SNMP_Raise(community.exc)
       ELSE IF port.exc # "" THEN SNMP_Raise(port.exc)
       ELSE IF curdevice # device THEN SNMP_Ret("Continue", SNMP_NoCred)
       \* community == '' and username == '': username is not defined
       ELSE IF community.val = <<>> THEN SNMP_Raise("NameError")
       ELSE IF ~isnumeric(port.val) THEN SNMP_Ret("None", SNMP_NoCred)
       ELSE SNMP_Ret("Creds", [hostname |-> curdevice, ipaddr |-> f[2],
                               community |-> community.val, port |-> port.val])

RECURSIVE SNMP_device_loop(_, _, _)
SNMP_device_loop(realms, device, lines) ==
  IF lines = <<>> THEN SNMP_Ret("None", SNMP_NoCred)
  ELSE LET r == SNMP_device_line(realms, device, Head(lines)) IN
       IF r.kind = "Continue" THEN SNMP_device_loop(realms, device, Tail(lines))
       ELSE r

SNMP_read_deviceinfo(file, realms, device) ==
  IF ~file.readable THEN SNMP_Ret("None", SNMP_NoCred)
  ELSE SNMP_device_loop(realms, device, file.lines)

SNMP_get_credentials(store, device) ==
  IF store.env = "unset" THEN SNMP_Ret("None", SNMP_NoCred)
  ELSE IF store.env = "nodir" THEN SNMP_Ret("None", SNMP_NoCred)
  ELSE LET realms == SNMP_read_credentials(store.credentials) IN
       IF realms.exc # "" THEN SNMP_Raise(realms.exc)
       ELSE IF realms.val.none THEN SNMP_Ret("None", SNMP_NoCred)
       ELSE SNMP_read_deviceinfo(store.deviceinfo, realms.val.realms, device)

\* get_credentials of the module in use
resolve(variant, store, device) ==
  IF variant = "SNMP" THEN SNMP_get_credentials(store, device)
  ELSE IF variant = "SSH" THEN SSH_get_credentials(store, device)
  ELSE get_credentials(store, device)

(***************************************************************************)
(* The tables the model draws its inputs from.                             *)
(***************************************************************************)
Line(fields) ==
  LET RECURSIVE join(_)
      join(fs) == IF Len(fs) = 1 THEN fs[1]
                  ELSE fs[1] \o <<";">> \o join(Tail(fs))
  IN join(fields) \o <<"\n">>

TAMPERED == <<"gAAAAA", "otherkey", "pw1">>
NET1 == <<"*", "NET1">>

RealmLines ==
  { Line(<<NET1, <<"admin">>, ENC(<<"pw1">>), <<"*">>>>),
    Line(<<<<"NET1">>, <<"admin">>, ENC(<<"pw1">>), <<"*">>>>),
    Line(<<NET1, <<"admin">>, ENC(<<"pw1">>), ENC(<<"en1">>)>>),
    Line(<<NET1, <<"admin">>, TAMPERED, <<"*">>>>),
    Line(<<NET1, <<>>, ENC(<<"pw1">>), <<"*">>>>),
    Line(<<NET1, <<"admin">>, ENC(<<>>), <<"*">>>>),
    Line(<<NET1, <<"admin">>, <<>>, <<"*">>>>),
    Line(<<<<"#", "comment">>>>),
    <<" ">> \o Line(<<NET1, <<"root">>, ENC(<<"pw1">>)>>) }

DeviceLines ==
  { Line(<<<<"r1">>, <<>>, <<"ios">>, NET1, <<>>, <<"*">>>>),
    Line(<<<<"r1">>, <<>>, <<"ios">>, NET1, NET1, NET1>>),
    Line(<<<<"r1">>, <<"10.0.0.1">>, <<"ios">>, <<"admin">>, ENC(<<"pw2">>),
           ENC(<<"en2">>), <<"2222">>>>),
    Line(<<<<"r1">>, <<>>, <<"ios">>, <<"admin">>, TAMPERED, ENC(<<"en2">>)>>),
    Line(<<<<"r1">>, <<>>, <<"ios">>, <<>>, ENC(<<"pw2">>), ENC(<<"en2">>)>>),
    Line(<<<<"r1">>, <<>>, <<"ios">>, <<"admin">>, ENC(<<"pw2">>), ENC(<<>>)>>),
    Line(<<<<"r2">>, <<>>, <<"ios">>, <<"*", "NET9">>, ENC(<<"pw2">>),
           ENC(<<"en2">>)>>),
    Line(<<<<"r2">>, <<>>, <<"ios">>, <<"admin">>, ENC(<<"pw2">>),
           ENC(<<"en2">>), <<"abc">>>>),
    Line(<<<<"r2">>, <<>>, <<"ios">>, <<"admin">>, TAMPERED, ENC(<<"en2">>)>>),
    Line(<<<<"r2">>, <<>>, <<"ios">>, <<"admin">>>>),
    Line(<<<<"#", "comment">>>>) }

SN == <<"*", "SN">>

SNMP_RealmLines ==
  { Line(<<SN, ENC(<<"public">>), <<"*">>>>),
    Line(<<SN, ENC(<<"public">>), <<"abc">>>>),
    Line(<<SN, ENC(<<>>), <<"161">>>>),
    Line(<<SN, TAMPERED, <<"161">>>>) }

SNMP_DeviceLines ==
  { Line(<<<<"r1">>, <<"10.0.0.1">>, SN, SN>>),
    Line(<<<<"r1">>, <<"10.0.0.1">>, ENC(<<"public">>), <<"161">>>>),
    Line(<<<<"r1">>, <<"10.0.0.1">>, <<>>, <<"161">>>>),
    Line(<<<<"r1">>, <<"10.0.0.1">>, ENC(<<>>), <<"161">>>>),
    Line(<<<<"r1">>, <<"10.0.0.1">>, ENC(<<"public">>), <<"abc">>>>),
    Line(<<<<"r2">>, <<"10.0.0.2">>, <<"*", "XX">>, <<"161">>>>) }

SeqsUpTo(S, n) == UNION {[1..k -> S] : k \in 0..n}

File(lines) == [readable |-> TRUE, lines |-> lines]
Unreadable == [readable |-> FALSE, lines |-> <<>>]
NoStore(env) == [env |-> env, credentials |-> Unreadable, deviceinfo |-> Unreadable]

\* The stores of a module: no DO_DEVICE, DO_DEVICE not a directory, a
\* missing or unreadable file, or two tables of the module's schema.
Stores(variant, nr, nd) ==
  LET RL == IF variant = "SNMP" THEN SNMP_RealmLines ELSE RealmLines
      DL == IF variant = "SNMP" THEN SNMP_DeviceLines ELSE DeviceLines
  IN {NoStore("unset"), NoStore("nodir"), NoStore("dir")}
     \cup {[env |-> "dir", credentials |-> File(r), deviceinfo |-> Unreadable] :
             r \in SeqsUpTo(RL, 1)}
     \cup {[env |-> "dir", credentials |-> File(r), deviceinfo |-> File(d)] :
             r \in SeqsUpTo(RL, nr), d \in SeqsUpTo(DL, nd)}

Variants == {"pw", "SSH", "SNMP"}

\* The stores a run of do-oob-device.py / do-device.py is given: one for
\* each way get_credentials can end.
Table(rl, dl) == [env |-> "dir", credentials |-> File(rl), deviceinfo |-> File(dl)]
RealmOk == Line(<<NET1, <<"admin">>, ENC(<<"pw1">>), <<"*">>>>)
RunStores ==
  { NoStore("unset"), NoStore("nodir"), NoStore("dir"),
    [env |-> "dir", credentials |-> File(<<RealmOk>>), deviceinfo |-> Unreadable],
    Table(<<RealmOk>>, <<>>),
    Table(<<RealmOk>>, <<Line(<<<<"r1">>, <<>>, <<"ios">>, NET1, NET1, NET1>>)>>),
    Table(<<RealmOk>>, <<Line(<<<<"r1">>, <<>>, <<"ios">>, NET1, <<>>, <<"*">>>>)>>),
    Table(<<RealmOk>>, <<Line(<<<<"r1">>, <<>>, <<"ios">>, <<>>, NET1, NET1>>)>>),
    Table(<<RealmOk>>,
          <<Line(<<<<"r1">>, <<>>, <<"ios">>, <<"admin">>, TAMPERED, NET1>>)>>),
    Table(<<Line(<<NET1, <<"admin">>, TAMPERED, <<"*">>>>)>>,
          <<Line(<<<<"r1">>, <<>>, <<"ios">>, NET1, NET1, NET1>>)>>) }

(***************************************************************************)
(* The console: markers the code searches for, and what a channel may      *)
(* deliver in one recv().                                                  *)
(***************************************************************************)
Connection == <<"Conn", "ection">>
assword == <<"assword:">>
ogin == <<"ogin:">>
confirm == <<"[confirm]">>
NonUnicode == "0xFF"
Placeholder == <<"!!! error non-Unicode character in output">>

Chunks ==
  { <<"text">>, <<"Conn">>, <<"ection">>, <<"Conn", "ection">>, <<"assword:">>,
    <<"ogin:">>, <<"[confirm]">>, <<NonUnicode>> }

\* buffer.decode('utf-8')
decode(buffer) ==
  IF \E k \in 1..Len(buffer) : buffer[k] = NonUnicode
  THEN Raise("UnicodeDecodeError") ELSE Ok(buffer)

\* what one poll finds: <<>> when recv_ready() is false, else the chunk read
Arrivals(n) == IF n < MaxChunks THEN {<<>>} \cup Chunks ELSE {<<>>}

\* time.sleep(secs): the seconds slept so far
sleep_longer(t, secs) == t + secs + 1

sleep(t, secs) == t + secs

\* receive(): if output == '': output = buffer else: output = output + buffer
accumulate_latest(out, buffer) == buffer

accumulate(out, buffer) == IF out = <<>> THEN buffer ELSE out \o buffer

\* receive(): the test for the password prompt on a banner chunk
password_asked_always(buffer) == TRUE

password_asked(buffer) == Contains(assword, buffer)

\* receive(): the condition of the retry loop
retry_while_five(t, out) == t < 5 /\ out = <<>>

retry_while(t, out) == t < 6 /\ out = <<>>

\* receive(): the test for the login prompt after each poll of a retry
login_seen_capital(out) == Contains(<<"Login:">>, out)

login_seen(out) == Contains(ogin, out)

\* connect(): the line is disconnected when receive() returned some output
\* without 'Connection'
needs_disconnect_always(out) == ~Contains(Connection, out)

needs_disconnect(out) == out # <<>> /\ ~Contains(Connection, out)

\* print(x): where the text goes while sys.stdout points to out; during
\* the lines sys.stdout is the log file
print_to_both(out) == [log |-> TRUE, tty |-> TRUE]

print_to(out) == [log |-> out = "log", tty |-> out = "tty"]

\* the chunks a sink holds after the chunks S were printed to it (or not)
written(w, S, on) == IF on THEN w \cup S ELSE w

\* messages sent on a line's channel
CmdMsg(line) == <<"ssh -p ", line, "\n">>
PwMsg(password) == password \o <<"\n">>
NewlineMsg == <<"\n">>
EscapeMsg == <<"0x1E", "x">>
DiscoMsg == <<"disco 1", "\n">>

(***************************************************************************)
(* 'show line': the rows of the reply and the lines parsed from them.      *)
(***************************************************************************)
Row(cols) ==
  LET RECURSIVE join(_)
      join(cs) == IF Len(cs) = 1 THEN cs[1]
                  ELSE cs[1] \o <<" ">> \o join(Tail(cs))
  IN join(cols)

\* a row of the table: Tty Line Typ Tx/Rx A Modem Roty AccO AccI Uses Noise
\* Overruns Int
LineRow(tty, line, typ, roty) ==
  Row(<<tty, <<line>>, <<typ>>, <<"9600/9600">>, <<"-">>, <<"-">>, <<roty>>,
        <<"-">>, <<"-">>, <<"0">>, <<"0">>, <<"0/0">>, <<"-">>>>)

TtyRow(tty, line, roty) == LineRow(tty, line, "TTY", roty)

ShowRows ==
  { <<" ", " ">> \o TtyRow(<<"0", "/", "1">>, "1", "-"),
    <<"*", " ">> \o TtyRow(<<"0", "/", "5">>, "5", "-"),
    TtyRow(<<"7">>, "7", "-"),
    Row(<<<<"Tty">>, <<"Line">>, <<"Typ">>>>) }

\* str.split(): the columns between runs of blanks
RECURSIVE columnsAcc(_, _)
columnsAcc(s, cur) ==
  IF s = <<>> THEN (IF cur = <<>> THEN <<>> ELSE <<cur>>)
  ELSE IF Head(s) = " "
       THEN (IF cur = <<>> THEN <<>> ELSE <<cur>>) \o columnsAcc(Tail(s), <<>>)
       ELSE columnsAcc(Tail(s), Append(cur, Head(s)))

columns(s) == columnsAcc(s, <<>>)

RECURSIVE remove(_, _)
remove(s, a) ==
  IF s = <<>> THEN <<>>
  ELSE IF Head(s) = a THEN remove(Tail(s), a)
  ELSE <<Head(s)>> \o remove(Tail(s), a)

\* int() of a Line or Roty column
Digits == [c \in {"0", "1", "2", "5", "7"} |->
             CASE c = "0" -> 0 [] c = "1" -> 1 [] c = "2" -> 2 [] c = "5" -> 5
               [] c = "7" -> 7]

offset == 2000

\* position of key in the ordered dictionary d, 0 when absent
KeyPos(d, key) ==
  IF \E k \in 1..Len(d) : d[k].line = key
  THEN CHOOSE k \in 1..Len(d) : d[k].line = key ELSE 0

\* a dictionary in which the first value given for a key stays
OrderedSet_first(d, key, interface) ==
  IF KeyPos(d, key) = 0 THEN Append(d, [line |-> key, interface |-> interface])
  ELSE d

\* lines[line] = interface: a new key goes last, a known key keeps its place
OrderedSet(d, key, interface) ==
  IF KeyPos(d, key) = 0 THEN Append(d, [line |-> key, interface |-> interface])
  ELSE [d EXCEPT ![KeyPos(d, key)].interface = interface]

\* the body of the loop over the reply's rows (do_oob_device)
show_line_row(lines, txtline) ==
  IF ~(\E k \in 1..Len(txtline) : txtline[k] = "TTY") THEN Ok(lines)
  ELSE
    LET t1 == lstrip(txtline)
        t2 == IF startswith(t1, "*") THEN remove(t1, "*") ELSE t1
        data == columns(t2)
        n_cols == Len(data)
        col_roty == n_cols - 7
        \* a negative index counts from the end of the list
        at == IF col_roty >= 0 THEN col_roty + 1 ELSE n_cols + col_roty + 1
    IN IF n_cols < 2 \/ at < 1 THEN Raise("IndexError")
       ELSE
         LET interface == <<"As">> \o data[1]
             line == data[2]
             roty == IF data[at] = <<"-">> THEN line ELSE data[at]
         IN IF ~(Len(roty) = 1 /\ roty[1] \in DOMAIN Digits)
            THEN Raise("ValueError")
            ELSE IF \E k \in 1..Len(interface) : interface[k] = "/"
                 THEN Ok(OrderedSet(lines, offset + Digits[roty[1]], interface))
                 ELSE Ok(lines)

RECURSIVE show_line_loop(_, _)
show_line_loop(lines, rows) ==
  IF rows = <<>> THEN Ok(lines)
  ELSE LET r == show_line_row(lines, Head(rows)) IN
       IF r.exc # "" THEN r ELSE show_line_loop(r.val, Tail(rows))

VARIABLES
  pc,       \* where the program is
  variant,  \* the credential module in use
  store,    \* the credential store the run reads
  device,   \* the requested device id
  cred,     \* what get_credentials returned (or raised)
  prog,     \* "oob": do-oob-device.py, "dev": do-device.py
  logexists, \* a file with the log file's name exists when the run starts
  argc,     \* len(sys.argv) of the run, 0 before main() looked at it
  logfile,  \* the logfile argument ("" when not given)
  rc,       \* the exit code of the run, -1 while it runs
  raised,   \* the exception that ended the run, "" when none
  flog,     \* the log file: "none", "open", "closed"
  stdout,   \* where sys.stdout points: "tty" or "log"
  nattempt, \* calls made to open the primary session
  nconn,    \* SSH connections opened so far
  lines,    \* the ordered dictionary of console lines
  idx,      \* position in lines of the line being walked
  results,  \* the lines walked so far and how receive() returned on each
  sent,     \* messages sent on the current line's channel
  banner, output, prompt, \* the buffers of receive() and connect()
  i, tries, \* the poll counter and the retry counter
  nrecv,    \* chunks received on the current line
  ret,      \* the text receive() returned
  outcome,  \* which return of receive() was taken
  wlog, wtty, \* the chunks of the line (by arrival number) written to the
            \* log file and to the original stdout
  script,   \* the lines of the script still to run (do-device)
  slept,    \* seconds receive() has slept on the current line
  rchunks,  \* the chunks read in the retry loop of receive(), as they came
  fn, arg, res \* a function applied on its own: its name, input and result

credv == <<variant, store, device>>
purev == <<fn, arg, res>>
runv == <<prog, logexists, argc, logfile, flog, stdout, nattempt, nconn, lines, idx, results,
          script>>
linev == <<sent, banner, output, prompt, i, tries, nrecv, ret, outcome, wlog, wtty,
           slept, rchunks>>
vars == <<pc, credv, purev, cred, rc, raised, runv, linev>>

\* no function is applied on its own
NoCall == fn = "" /\ arg = <<>> /\ res = <<>>

NotCalled == [exc |-> "", kind |-> "NotCalled", cred |-> NoCred, port |-> 0]

LineInit ==
  /\ sent = <<>> /\ banner = <<>> /\ output = <<>> /\ prompt = <<>>
  /\ i = 0 /\ tries = 0 /\ nrecv = 0 /\ ret = <<>> /\ outcome = ""
  /\ wlog = {} /\ wtty = {}
  /\ slept = 0 /\ rchunks = <<>>

RunInit ==
  /\ rc = -1 /\ raised = "" /\ flog = "none" /\ stdout = "tty" /\ nconn = 0
  /\ nattempt = 0 /\ argc = 0
  /\ lines = <<>> /\ idx = 0 /\ results = <<>> /\ script = <<>>
  /\ cred = NotCalled

(***************************************************************************)
(* SpecCred: get_credentials applied to every store of the bounds.         *)
(***************************************************************************)
InitCred ==
  /\ pc = "gc_call"
  /\ variant \in Variants
  /\ store \in Stores(variant, MaxRealmLines, MaxDevLines)
  /\ device = <<"r1">>
  /\ prog = "" /\ logfile = "" /\ logexists = FALSE
  /\ RunInit /\ LineInit /\ NoCall

CallGetCredentials ==
  /\ pc = "gc_call"
  /\ cred' = resolve(variant, store, device)
  /\ pc' = IF cred'.exc # "" THEN "gc_raised" ELSE "gc_returned"
  /\ UNCHANGED <<credv, purev, rc, raised, runv, linev>>

NextCred == CallGetCredentials

SpecCred == InitCred /\ [][NextCred]_vars

(***************************************************************************)
(* Interface names (get-snmp-mac.py, get-snmp-arp.py).  A name is a        *)
(* sequence of parts: the words the code rewrites, digits and '/'.         *)
(***************************************************************************)
\* str.replace(old, new): every occurrence, from the left, not overlapping
RECURSIVE replace(_, _, _)
replace(s, old, new) ==
  IF Len(s) < Len(old) THEN s
  ELSE IF SubSeq(s, 1, Len(old)) = old
       THEN new \o replace(SubSeq(s, Len(old) + 1, Len(s)), old, new)
       ELSE <<Head(s)>> \o replace(Tail(s), old, new)

DigitChars == {"0", "3", "5"}

\* re.match('^<slot>/\d+$', ifName)
ubiquiti_match(slot, ifName) ==
  /\ Len(ifName) >= 3 /\ ifName[1] = slot /\ ifName[2] = "/"
  /\ \A k \in 3..Len(ifName) : ifName[k] \in DigitChars

\* ifName.lower().startswith('vl')
lower_startswith_vl(ifName) ==
  ifName # <<>> /\ Head(ifName) \in {"Vlan", "Vl", "VLAN- ", "vlan."}

\* get-snmp-arp.py: ignore_ifNames
ignore_ifNames == {"bme0", "jsrv", "lo0"}

ignore_ifName(ifName) == ifName # <<>> /\ Head(ifName) \in ignore_ifNames

\* get-snmp-mac.py short_ifName
short_ifName(ifName) ==
  LET n1 == replace(ifName, <<"Ten", "Gigabit", "Ethernet">>, <<"Te">>)
      n2 == replace(n1, <<"Gigabit", "Ethernet">>, <<"Gi">>)
      n3 == replace(n2, <<"Fast", "Ethernet">>, <<"Fa">>)
      n4 == replace(n3, <<"Ethernet">>, <<"Et">>)
      n5 == replace(n4, <<"Management">>, <<"Ma">>)
      n6 == replace(n5, <<"Port-channel">>, <<"Po">>)
      n7 == replace(n6, <<"port-channel">>, <<"Po">>)
      n8 == replace(n7, <<"switch">>, <<"Et">>)
      n9 == IF ubiquiti_match("0", n8) THEN <<"Et">> \o n8 ELSE n8
      n10 == IF ubiquiti_match("3", n9) THEN replace(n9, <<"3", "/">>, <<"Po">>)
             ELSE n9
  IN IF lower_startswith_vl(n10)
     THEN replace(replace(replace(n10, <<"Vlan">>, <<>>), <<"Vl">>, <<>>),
                  <<"VLAN- ">>, <<>>)
     ELSE IF startswith(n10, "br-vlan") THEN replace(n10, <<"br-vlan">>, <<>>)
     ELSE n10

\* get-snmp-arp.py short_ifName: the same, and ignored names become ''
arp_short_ifName(ifName) ==
  LET n == short_ifName(ifName) IN IF ignore_ifName(n) THEN <<>> ELSE n

\* the parts names are made of
NameParts ==
  {"Ten", "Gigabit", "Ethernet", "Port-channel", "switch", "Vlan", "Vl",
   "br-vlan", "lo0", "0", "3", "5", "/"}

(***************************************************************************)
(* SpecPure: functions applied on their own to every input of the bounds.  *)
(***************************************************************************)
\* rows of a reply to 'show line' by their columns; the heading has no Tty
ReplyRows ==
  { [mark |-> <<" ", " ">>, tty |-> <<"0", "/", "1">>, line |-> "1",
     typ |-> "TTY", roty |-> "-"],
    [mark |-> <<"*", " ">>, tty |-> <<"0", "/", "5">>, line |-> "5",
     typ |-> "TTY", roty |-> "-"],
    [mark |-> <<>>, tty |-> <<"0", "/", "2">>, line |-> "2",
     typ |-> "TTY", roty |-> "1"],
    [mark |-> <<" ">>, tty |-> <<"7">>, line |-> "7", typ |-> "TTY", roty |-> "-"],
    [mark |-> <<" ">>, tty |-> <<"0", "/", "7">>, line |-> "7", typ |-> "VTY",
     roty |-> "-"],
    [mark |-> <<>>, tty |-> <<>>, line |-> "", typ |-> "", roty |-> ""] }

\* the text of a row as the device prints it
RowText(r) ==
  IF r.tty = <<>> THEN Row(<<<<"Tty">>, <<"Line">>, <<"Typ">>>>)
  ELSE r.mark \o LineRow(r.tty, r.line, r.typ, r.roty)

\* the characters secrets are made of
SecretChars == {"p", ";", "U+00FC", "U+00E9"}

InitPure ==
  /\ pc = "fn_call"
  /\ \/ fn = "show_line" /\ arg \in SeqsUpTo(ReplyRows, MaxReplyRows)
     \/ fn = "decrypt_password" /\ arg \in SeqsUpTo(SecretChars, MaxSecret)
     \/ fn = "short_ifName" /\ arg \in SeqsUpTo(NameParts, MaxName)
  /\ res = <<>>
  /\ variant = "pw" /\ store = NoStore("unset") /\ device = <<"r1">>
  /\ prog = "" /\ logfile = "" /\ logexists = FALSE
  /\ RunInit /\ LineInit

\* do_oob_device: the enumeration of the console lines from a reply
apply_show_line ==
  /\ pc = "fn_call" /\ fn = "show_line"
  /\ res' = show_line_loop(<<>>, [k \in 1..Len(arg) |-> RowText(arg[k])])
  /\ pc' = "fn_done"
  /\ UNCHANGED <<credv, fn, arg, cred, rc, raised, runv, linev>>

\* pwencrypt.py prints the token of a secret; each module decrypts the text
apply_decrypt_password ==
  /\ pc = "fn_call" /\ fn = "decrypt_password"
  /\ res' = [pw |-> decrypt_password(encrypt_password(arg)),
             SSH |-> SSH_decrypt_password(encrypt_password(arg)),
             SNMP |-> SNMP_decrypt_password(encrypt_password(arg))]
  /\ pc' = "fn_done"
  /\ UNCHANGED <<credv, fn, arg, cred, rc, raised, runv, linev>>

\* short_ifName of get-snmp-mac.py and of get-snmp-arp.py on one name
apply_short_ifName ==
  /\ pc = "fn_call" /\ fn = "short_ifName"
  /\ res' = [mac |-> short_ifName(arg), arp |-> arp_short_ifName(arg)]
  /\ pc' = "fn_done"
  /\ UNCHANGED <<credv, fn, arg, cred, rc, raised, runv, linev>>

NextPure == apply_show_line \/ apply_decrypt_password \/ apply_short_ifName

SpecPure == InitPure /\ [][NextPure]_vars

(***************************************************************************)
(* Spec: one run of do-oob-device.py or of do-device.py.                   *)
(***************************************************************************)
ERR_NONE == 0
ERR_SYNTAX == 1
ERR_NOSCRIPT == 2
ERR_LOGFILE == 3
ERR_LOGCREATE == 4
ERR_CREDENTIALS == 11
ERR_CONNECT == 12
ERR_SEND_COMMAND == 42

Init ==
  /\ pc = "main"
  /\ prog \in {"oob", "dev"}
  /\ variant = "pw"
  /\ store = NoStore("unset")
  /\ device = <<"r1">>
  /\ logfile = ""
  /\ logexists \in BOOLEAN
  /\ RunInit /\ LineInit /\ NoCall

\* return(code) from the run
Exit(code) == pc' = "exit" /\ rc' = code /\ raised' = ""
\* an exception nobody catches: traceback, exit status 1
Crash(e) == pc' = "crashed" /\ rc' = 1 /\ raised' = e
Goto(l) == pc' = l /\ UNCHANGED <<rc, raised>>

\* do-oob-device.py main(): len(sys.argv) counts the program name
main ==
  /\ pc = "main" /\ prog = "oob"
  /\ \E n \in 2..5 :
       /\ argc' = n
       /\ IF n < 3 \/ n > 4
          THEN Exit(ERR_SYNTAX) /\ UNCHANGED logfile
          ELSE Goto("start") /\ logfile' = IF n = 3 THEN "log" ELSE ""
  /\ UNCHANGED <<credv, purev, cred, flog, stdout, nconn, lines, idx, results, script, prog, logexists, nattempt, linev>>

\* do-device.py main(): args are the arguments left after the options
dev_main ==
  /\ pc = "main" /\ prog = "dev"
  /\ \E nargs \in 1..4 :
       /\ argc' = nargs + 1
       /\ IF nargs < 2 \/ nargs > 3
          THEN Exit(ERR_SYNTAX) /\ UNCHANGED logfile
          ELSE Goto("start") /\ logfile' = IF nargs = 3 THEN "log" ELSE ""
  /\ UNCHANGED <<credv, purev, cred, flog, stdout, nconn, lines, idx, results, script, prog, logexists, nattempt, linev>>

\* do_oob_device: the default log name uses the undefined name 'script';
\* then the test for an existing log file
do_oob_device_start_overwrite ==
  /\ pc = "start" /\ prog = "oob"
  /\ IF logfile = "" THEN Crash("NameError") ELSE Goto("credentials")
  /\ UNCHANGED <<credv, purev, cred, runv, linev>>

do_oob_device_start ==
  /\ pc = "start" /\ prog = "oob"
  /\ IF logfile = "" THEN Crash("NameError")
     ELSE IF logexists THEN Exit(ERR_LOGFILE) ELSE Goto("credentials")
  /\ UNCHANGED <<credv, purev, cred, runv, linev>>

\* do_device: default log name, existing log file, reading the script
do_device_start ==
  /\ pc = "start" /\ prog = "dev"
  /\ \E readable \in BOOLEAN,
        cmds \in SeqsUpTo({"show", "!comment", "!!enable"}, MaxScript) :
       IF logexists THEN Exit(ERR_LOGFILE) /\ UNCHANGED <<logfile, script>>
       ELSE IF ~readable THEN Exit(ERR_NOSCRIPT) /\ UNCHANGED <<logfile, script>>
       ELSE /\ Goto("credentials")
            /\ logfile' = IF logfile = "" THEN "default" ELSE logfile
            /\ script' = cmds
  /\ UNCHANGED <<credv, purev, cred, prog, logexists, argc, nattempt, flog, stdout, nconn, lines, idx, results, linev>>

\* (credentials, ssh_port) = get_credentials(device) and the test that follows
call_get_credentials ==
  /\ pc = "credentials"
  /\ \E st \in RunStores :
       /\ store' = st
       /\ cred' = get_credentials(st, device)
  /\ IF cred'.exc # "" THEN Crash(cred'.exc)
     ELSE IF cred'.kind = "None" THEN Exit(ERR_CREDENTIALS)
     \* '' is not None: do_oob_device goes on to credentials['ip']
     ELSE IF cred'.kind = "Empty" /\ prog = "oob" THEN Crash("TypeError")
     ELSE Goto("openlog")
  /\ UNCHANGED <<variant, device, purev, runv, linev>>

\* flog = open(logfile, 'w'); do_oob_device redirects stdout right away
open_logfile ==
  /\ pc = "openlog"
  /\ \E ok \in BOOLEAN :
       IF ~ok THEN Exit(ERR_LOGCREATE) /\ UNCHANGED <<flog, stdout>>
       ELSE /\ Goto("connect")
            /\ flog' = "open"
            /\ stdout' = IF prog = "oob" THEN "log" ELSE stdout
  /\ UNCHANGED <<credv, purev, cred, prog, logexists, argc, nattempt, logfile, nconn, lines, idx, results, script, linev>>

\* do_oob_device: the primary session
do_oob_device_connect_retry ==
  /\ pc = "connect" /\ prog = "oob"
  /\ \E ok \in BOOLEAN :
       IF ok THEN Goto("showline") /\ nconn' = nconn + 1
       ELSE IF nattempt < 1 THEN Goto("connect") /\ UNCHANGED nconn
       ELSE Exit(ERR_CONNECT) /\ UNCHANGED nconn
  /\ nattempt' = nattempt + 1
  /\ UNCHANGED <<credv, purev, cred, prog, logexists, argc, logfile, flog, stdout, lines, idx, results, script, linev>>

do_oob_device_connect ==
  /\ pc = "connect" /\ prog = "oob"
  /\ \E ok \in BOOLEAN :
       IF ~ok THEN Exit(ERR_CONNECT) /\ UNCHANGED nconn
       ELSE Goto("showline") /\ nconn' = nconn + 1
  /\ nattempt' = nattempt + 1
  /\ UNCHANGED <<credv, purev, cred, prog, logexists, argc, logfile, flog, stdout, lines, idx, results, script, linev>>

\* 'show line' over the primary session, which is then closed; the reply
\* is parsed into the dictionary of lines
do_oob_device_show_line ==
  /\ pc = "showline"
  /\ \E rows \in SeqsUpTo(ShowRows, MaxRows) :
       LET r == show_line_loop(<<>>, rows) IN
       IF r.exc # "" THEN Crash(r.exc) /\ UNCHANGED <<lines, idx>>
       ELSE Goto("walk") /\ lines' = r.val /\ idx' = 1
  /\ UNCHANGED <<credv, purev, cred, prog, logexists, argc, nattempt, logfile, flog, stdout, nconn, results, script, linev>>

\* for line in lines: ... ; after the loop stdout is restored, the log closed
do_oob_device_walk ==
  /\ pc = "walk"
  /\ IF idx <= Len(lines)
     THEN Goto("line") /\ UNCHANGED <<flog, stdout>>
     ELSE Exit(ERR_NONE) /\ flog' = "closed" /\ stdout' = "tty"
  /\ UNCHANGED <<credv, purev, cred, prog, logexists, argc, nattempt, logfile, nconn, lines, idx, results, script, linev>>

\* connect(): a new SSH connection and shell for the line, then receive()
\* sends the command
connect_open_reuse ==
  /\ pc = "line"
  /\ Goto("banner")
  /\ sent' = <<CmdMsg(lines[idx].line)>>
  /\ banner' = <<>> /\ output' = <<>> /\ prompt' = <<>>
  /\ i' = 0 /\ tries' = 0 /\ nrecv' = 0 /\ ret' = <<>> /\ outcome' = ""
  /\ wlog' = {} /\ wtty' = {}
  /\ slept' = 0 /\ rchunks' = <<>>
  /\ UNCHANGED <<credv, purev, cred, runv>>

connect_open ==
  /\ pc = "line"
  /\ \E ok \in BOOLEAN :
       IF ~ok THEN Crash("SSHException") /\ UNCHANGED <<nconn, linev>>
       ELSE /\ Goto("banner")
            /\ nconn' = nconn + 1
            /\ sent' = <<CmdMsg(lines[idx].line)>>
            /\ banner' = <<>> /\ output' = <<>> /\ prompt' = <<>>
            /\ i' = 0 /\ tries' = 0 /\ nrecv' = 0 /\ ret' = <<>> /\ outcome' = ""
            /\ wlog' = {} /\ wtty' = {}
            /\ slept' = 0 /\ rchunks' = <<>>
  /\ UNCHANGED <<credv, purev, cred, prog, logexists, argc, nattempt, logfile, flog, stdout, lines, idx, results, script>>

\* receive(): one of the 3 banner polls
receive_banner_poll ==
  /\ pc = "banner" /\ i < 3
  /\ \E c \in Arrivals(nrecv) :
       IF c = <<>> THEN Goto("banner") /\ i' = i + 1
                        /\ UNCHANGED <<sent, banner, nrecv, ret, outcome>>
       ELSE /\ nrecv' = nrecv + 1
            /\ IF decode(c).exc # ""
               THEN Crash(decode(c).exc) /\ UNCHANGED <<sent, banner, i, ret, outcome>>
               ELSE IF Contains(Connection, c)
               THEN Goto("returned") /\ ret' = c /\ outcome' = "Inactive"
                    /\ UNCHANGED <<sent, banner, i>>
               ELSE /\ banner' = banner \o c
                    /\ UNCHANGED <<ret, outcome>>
                    /\ IF password_asked(c)
                       THEN Goto("password") /\ UNCHANGED i
                            /\ sent' = Append(sent, PwMsg(cred.cred.password))
                       ELSE Goto("banner") /\ i' = i + 1 /\ UNCHANGED sent
  /\ slept' = sleep(slept, 1)
  /\ UNCHANGED <<credv, purev, cred, runv, output, prompt, tries, wlog, wtty, rchunks>>

\* receive(): the poll after the password was sent
receive_password_poll ==
  /\ pc = "password"
  /\ \E c \in Arrivals(nrecv) :
       IF c = <<>> THEN Goto("banner") /\ i' = i + 1 /\ UNCHANGED <<banner, nrecv>>
       ELSE /\ nrecv' = nrecv + 1
            /\ IF decode(c).exc # ""
               THEN Crash(decode(c).exc) /\ UNCHANGED <<banner, i>>
               ELSE Goto("banner") /\ banner' = banner \o c /\ i' = i + 1
  /\ slept' = sleep(slept, 1)
  /\ UNCHANGED <<credv, purev, cred, runv, sent, output, prompt, tries, ret, outcome, wlog, wtty,
                 rchunks>>

\* receive(): after the banner polls
receive_banner_eval_unchecked ==
  /\ pc = "banner" /\ i = 3
  /\ Goto("retry") /\ tries' = 0 /\ output' = <<>> /\ UNCHANGED <<ret, outcome>>
  /\ wlog' = written(wlog, 1..nrecv, print_to(stdout).log)
  /\ wtty' = written(wtty, 1..nrecv, print_to(stdout).tty)
  /\ UNCHANGED <<credv, purev, cred, runv, sent, banner, prompt, i, nrecv, slept, rchunks>>

receive_banner_eval ==
  /\ pc = "banner" /\ i = 3
  /\ IF banner = <<>>
     THEN Goto("returned") /\ ret' = <<>> /\ outcome' = "NoBanner"
          /\ UNCHANGED <<tries, output>>
     ELSE Goto("retry") /\ tries' = 0 /\ output' = <<>> /\ UNCHANGED <<ret, outcome>>
  /\ wlog' = written(wlog, 1..nrecv, print_to(stdout).log)
  /\ wtty' = written(wtty, 1..nrecv, print_to(stdout).tty)
  /\ UNCHANGED <<credv, purev, cred, runv, sent, banner, prompt, i, nrecv, slept, rchunks>>

\* receive(): while tries < 6 and output == '': send a bare newline
receive_retry_send ==
  /\ pc = "retry" /\ retry_while(tries, output)
  /\ Goto("retry_poll")
  /\ sent' = Append(sent, NewlineMsg)
  /\ i' = 0
  /\ UNCHANGED <<credv, purev, cred, runv, banner, output, prompt, tries, nrecv, ret, outcome,
                 wlog, wtty, slept, rchunks>>

\* receive(): one of the 3 polls of a retry; the third ends the iteration
receive_retry_poll ==
  /\ pc = "retry_poll" /\ i < 3
  /\ \E c \in Arrivals(nrecv) :
       /\ nrecv' = IF c = <<>> THEN nrecv ELSE nrecv + 1
       /\ rchunks' = IF c = <<>> THEN rchunks ELSE Append(rchunks, c)
       /\ output' = IF c = <<>> THEN output
                    ELSE IF decode(c).exc # "" THEN accumulate(output, Placeholder)
                    ELSE accumulate(output, c)
       /\ wlog' = written(wlog, IF c = <<>> THEN {} ELSE {nrecv'}, print_to(stdout).log)
       /\ wtty' = written(wtty, IF c = <<>> THEN {} ELSE {nrecv'}, print_to(stdout).tty)
       /\ IF login_seen(output')
          THEN Goto("returned") /\ ret' = output' /\ outcome' = "Success"
               /\ UNCHANGED <<i, tries>>
          ELSE IF i = 2
          THEN Goto("retry") /\ tries' = tries + 1 /\ i' = 3
               /\ UNCHANGED <<ret, outcome>>
          ELSE Goto("retry_poll") /\ i' = i + 1 /\ UNCHANGED <<tries, ret, outcome>>
  /\ slept' = sleep(slept, 2)
  /\ UNCHANGED <<credv, purev, cred, runv, sent, banner, prompt>>

\* receive(): the while loop ends
receive_retry_exit ==
  /\ pc = "retry" /\ ~retry_while(tries, output)
  /\ Goto("returned") /\ ret' = output /\ outcome' = "Timeout"
  /\ UNCHANGED <<credv, purev, cred, runv, sent, banner, output, prompt, i, tries, nrecv,
                 wlog, wtty, slept, rchunks>>

\* connect(): what receive() returned decides whether the line is
\* disconnected
connect_returned ==
  /\ pc = "returned"
  /\ IF needs_disconnect(ret)
     THEN Goto("disco_poll") /\ sent' = sent \o <<EscapeMsg, DiscoMsg>>
          /\ prompt' = <<>> /\ i' = 0
     ELSE Goto("close") /\ UNCHANGED <<sent, prompt, i>>
  /\ wlog' = written(wlog, IF outcome = "Inactive" THEN {nrecv} ELSE {},
                     print_to(stdout).log)
  /\ wtty' = written(wtty, IF outcome = "Inactive" THEN {nrecv} ELSE {},
                     print_to(stdout).tty)
  /\ UNCHANGED <<credv, purev, cred, runv, banner, output, tries, nrecv, ret, outcome, slept,
                 rchunks>>

\* connect(): one of the 2 polls for the confirmation prompt
connect_disco_poll ==
  /\ pc = "disco_poll" /\ i < 2
  /\ \E c \in Arrivals(nrecv) :
       IF c = <<>> THEN Goto("disco_poll") /\ i' = i + 1 /\ UNCHANGED <<prompt, nrecv>>
       ELSE /\ nrecv' = nrecv + 1
            /\ IF decode(c).exc # ""
               THEN Crash(decode(c).exc) /\ UNCHANGED <<prompt, i>>
               ELSE Goto("disco_poll") /\ prompt' = prompt \o c /\ i' = i + 1
  /\ UNCHANGED <<credv, purev, cred, runv, sent, banner, output, tries, ret, outcome, wlog, wtty,
                 slept, rchunks>>

\* connect(): the prompt is acknowledged when it asks to confirm
connect_confirm ==
  /\ pc = "disco_poll" /\ i = 2
  /\ IF Contains(confirm, prompt)
     THEN Goto("confirm_poll") /\ sent' = Append(sent, NewlineMsg)
     ELSE Goto("close") /\ UNCHANGED sent
  \* print(prompt): the chunks received since the disconnect command, the
  \* only ones not printed yet
  /\ wlog' = written(wlog, (1..nrecv) \ wlog, print_to(stdout).log)
  /\ wtty' = written(wtty, (1..nrecv) \ wlog, print_to(stdout).tty)
  /\ UNCHANGED <<credv, purev, cred, runv, banner, output, prompt, i, tries, nrecv, ret, outcome,
                 slept, rchunks>>

\* connect(): the poll after the acknowledgement
connect_confirm_poll ==
  /\ pc = "confirm_poll"
  /\ \E c \in Arrivals(nrecv) :
       /\ nrecv' = IF c = <<>> THEN nrecv ELSE nrecv + 1
       /\ IF c # <<>> /\ decode(c).exc # ""
          THEN Crash(decode(c).exc) /\ UNCHANGED <<wlog, wtty>>
          ELSE /\ Goto("close")
               /\ wlog' = written(wlog, IF c = <<>> THEN {} ELSE {nrecv'},
                                  print_to(stdout).log)
               /\ wtty' = written(wtty, IF c = <<>> THEN {} ELSE {nrecv'},
                                  print_to(stdout).tty)
  /\ UNCHANGED <<credv, purev, cred, runv, sent, banner, output, prompt, i, tries, ret, outcome,
                 slept, rchunks>>

\* connect(): ssh.close() and return; the loop takes the next line
connect_close_abort ==
  /\ pc = "close"
  /\ IF outcome \in {"NoBanner", "Timeout"}
     THEN Exit(ERR_CONNECT) /\ UNCHANGED <<results, idx>>
     ELSE /\ Goto("walk")
          /\ results' = Append(results, [line |-> lines[idx].line, outcome |-> outcome])
          /\ idx' = idx + 1
  /\ UNCHANGED <<credv, purev, cred, prog, logexists, argc, nattempt, logfile, flog, stdout, nconn, lines, script, linev>>

connect_close ==
  /\ pc = "close"
  /\ Goto("walk")
  /\ results' = Append(results, [line |-> lines[idx].line, outcome |-> outcome])
  /\ idx' = idx + 1
  /\ UNCHANGED <<credv, purev, cred, prog, logexists, argc, nattempt, logfile, flog, stdout, nconn, lines, script, linev>>

\* do_device: the session; ConnectHandler(**'') raises inside the try
do_device_connect ==
  /\ pc = "connect" /\ prog = "dev"
  /\ \E ok \in BOOLEAN :
       IF ~ok \/ cred.kind = "Empty"
       THEN Exit(ERR_CONNECT) /\ UNCHANGED <<nconn, stdout>>
       ELSE Goto("script") /\ nconn' = nconn + 1 /\ stdout' = "log"
  /\ nattempt' = nattempt + 1
  /\ UNCHANGED <<credv, purev, cred, prog, logexists, argc, logfile, flog, lines, idx, results, script, linev>>

\* do_device: one line of the script, or the end of the script
do_device_script ==
  /\ pc = "script"
  /\ IF script = <<>>
     THEN Exit(ERR_NONE) /\ stdout' = "tty" /\ flog' = "closed" /\ UNCHANGED script
     ELSE IF Head(script) = "!!enable"
     THEN Crash("NameError") /\ UNCHANGED <<stdout, flog, script>>
     ELSE IF Head(script) = "show"
     THEN \E sendok \in BOOLEAN :
            IF sendok THEN Goto("script") /\ script' = Tail(script)
                           /\ UNCHANGED <<stdout, flog>>
            ELSE Exit(ERR_SEND_COMMAND) /\ stdout' = "tty" /\ flog' = "closed"
                 /\ UNCHANGED script
     ELSE Goto("script") /\ script' = Tail(script) /\ UNCHANGED <<stdout, flog>>
  /\ UNCHANGED <<credv, purev, cred, prog, logexists, argc, nattempt, logfile, nconn, lines, idx, results, linev>>

Next ==
  \/ main \/ dev_main
  \/ do_oob_device_start \/ do_device_start
  \/ call_get_credentials \/ open_logfile
  \/ do_oob_device_connect \/ do_oob_device_show_line \/ do_oob_device_walk
  \/ connect_open
  \/ receive_banner_poll \/ receive_password_poll \/ receive_banner_eval
  \/ receive_retry_send \/ receive_retry_poll \/ receive_retry_exit
  \/ connect_returned \/ connect_disco_poll \/ connect_confirm
  \/ connect_confirm_poll \/ connect_close
  \/ do_device_connect \/ do_device_script

Spec == Init /\ [][Next]_vars

(***************************************************************************)
(* The claims.                                                             *)
(***************************************************************************)
\* an escape sequence directly followed by the disconnect command
HasDisconnect(msgs) ==
  \E k \in 1..(Len(msgs) - 1) : msgs[k] = EscapeMsg /\ msgs[k + 1] = DiscoMsg

\* the messages sent before the escape sequence: those of receive()
RECURSIVE BeforeEscape(_)
BeforeEscape(msgs) ==
  IF msgs = <<>> \/ Head(msgs) = EscapeMsg THEN <<>>
  ELSE <<Head(msgs)>> \o BeforeEscape(Tail(msgs))

\* all text received in the banner phase: the banner, and the chunk that
\* made receive() return at once
BannerText == IF outcome = "Inactive" THEN banner \o ret ELSE banner

InRetryLoop == pc \in {"retry", "retry_poll"}
InDisconnect == pc \in {"disco_poll", "confirm_poll"}

\* C1 (as stated): whenever receive() leaves the retry loop without a login
\* prompt, 6 iterations were performed and 6 bare newlines sent, also when
\* an iteration received output without 'ogin:'.
C1_SixIterationsAlways ==
  (pc = "returned" /\ outcome = "Timeout") =>
    (tries = 6 /\ count(sent, NewlineMsg) = 6)

\* C1 (amended): when receive() leaves the retry loop without a login
\* prompt, the banner was not empty, every iteration sent one bare newline
\* and made its 3 polls, and: if no poll received any output, exactly 6
\* iterations were performed; if output without 'ogin:' was received, the
\* loop stopped after between 1 and 6 iterations.
C1_SixIterationsWhenSilent ==
  (pc = "returned" /\ outcome = "Timeout") =>
    /\ banner # <<>>
    /\ ~Contains(<<"ogin:">>, output)
    /\ i = 3
    /\ count(sent, NewlineMsg) = tries
    /\ IF output = <<>> THEN tries = 6 ELSE tries \in 1..6

C1_Witness ==
  /\ pc = "returned" /\ outcome = "Timeout"
  /\ banner # <<>> /\ output = <<>>
  /\ tries = 6 /\ count(sent, NewlineMsg) = 6

\* C2 (as stated): a line whose banner text is not empty and has no
\* 'Connection' is sent the escape sequence and the disconnect command
\* before its session is closed, whatever the retry loop's outcome.
C2_DisconnectWhenBanner ==
  (pc = "close" /\ BannerText # <<>> /\ ~Contains(<<"Conn", "ection">>, BannerText))
    => HasDisconnect(sent)

\* C2 (amended): when a line's session is closed, the escape sequence
\* followed by the disconnect command has been sent exactly when receive()
\* returned non-empty output without 'Connection' (Success, or Timeout with
\* output); after a Timeout with no output at all nothing is sent.
C2_DisconnectWhenOutput ==
  pc = "close" =>
    (HasDisconnect(sent) <=> (ret # <<>> /\ ~Contains(<<"Conn", "ection">>, ret)))

C2_Witness ==
  /\ pc = "close" /\ outcome = "Timeout" /\ ret # <<>>
  /\ HasDisconnect(sent)

\* C3: whenever the text received in the banner phase contains
\* 'Connection' (also split over two chunks, also in the poll after the
\* password), the line ends as Inactive: the retry loop is not entered, no
\* bare newline and no disconnect sequence is sent.
C3_ConnectionMeansInactive ==
  Contains(<<"Conn", "ection">>, BannerText) =>
    /\ ~InRetryLoop /\ ~InDisconnect
    /\ pc \in {"returned", "close"} => outcome = "Inactive"
    /\ count(sent, NewlineMsg) = 0
    /\ ~HasDisconnect(sent)

\* C4: when nothing is received in the 3 banner polls, receive() returns
\* the empty NoBanner result without entering the retry loop: only the
\* command was sent on the line, no bare newline and no disconnect sequence.
C4_NoBanner ==
  nrecv = 0 =>
    /\ ~InRetryLoop /\ ~InDisconnect
    /\ pc \in {"returned", "close"} =>
         /\ outcome = "NoBanner" /\ ret = <<>>
         /\ sent = <<CmdMsg(lines[idx].line)>>

C4_Witness ==
  pc = "close" /\ outcome = "NoBanner" /\ nrecv = 0 /\ i = 3

\* C5: as soon as the accumulated retry output contains 'ogin:', receive()
\* has returned it as Success: the retry loop is left at that poll, and the
\* bare newlines sent are those of the iterations begun (tries + 1).
C5_LoginReturns ==
  /\ Contains(<<"ogin:">>, output) =>
       (~InRetryLoop /\ outcome = "Success" /\ ret = output)
  /\ outcome = "Success" =>
       /\ Contains(<<"ogin:">>, ret)
       /\ count(BeforeEscape(sent), NewlineMsg) = tries + 1

C5_Witness ==
  /\ pc = "returned" /\ outcome = "Success"
  /\ Len(output) > 1 /\ Contains(<<"ogin:">>, output)

\* C6: do_oob_device walks the lines one at a time in the order of the
\* enumeration, each exactly once; once a line was started the run can only
\* end with exit code 0 and every line walked, whatever the lines' outcomes;
\* after a line is closed the walk always goes on.
C6_AllLinesWalked ==
  prog = "oob" =>
    /\ Len(results) <= Len(lines)
    /\ \A k \in 1..Len(results) : results[k].line = lines[k].line
    /\ pc \in {"line", "banner", "password", "retry", "retry_poll", "returned",
               "disco_poll", "confirm_poll", "close"} => Len(results) = idx - 1
    /\ pc = "close" => ENABLED connect_close
    /\ pc = "walk" => ENABLED do_oob_device_walk
    /\ (pc = "exit" /\ sent # <<>>) => (rc = ERR_NONE /\ Len(results) = Len(lines))

C6_Witness ==
  /\ prog = "oob" /\ pc = "exit" /\ rc = ERR_NONE
  /\ Len(results) = 2
  /\ results[1].outcome \in {"NoBanner", "Timeout", "Inactive"}
  /\ results[1].line # results[2].line

\* the lines of Scenario A
ScenarioRealm == Line(<<<<"NET1">>, <<"admin">>, ENC(<<"pw1">>), <<"*">>>>)
ScenarioDevice == Line(<<<<"r1">>, <<>>, <<"ios">>, NET1, <<>>, <<"*">>>>)
ScenarioDeviceRefs == Line(<<<<"r1">>, <<>>, <<"ios">>, NET1, NET1, NET1>>)
Among(line, file) == \E k \in 1..Len(file.lines) : file.lines[k] = line

\* C7 (as stated): with the realm line 'NET1;admin;ENC;*' and the device
\* line 'r1;;ios;*NET1;;*' in the tables, get_credentials('r1') returns
\* address r1, username admin and an enable-secret equal to the password.
C7_ScenarioAsWritten ==
  (pc # "gc_call" /\ variant \in {"pw", "SSH"} /\ store.env = "dir"
     /\ Among(ScenarioRealm, store.credentials)
     /\ Among(ScenarioDevice, store.deviceinfo))
    => /\ cred.kind = "Creds"
       /\ cred.cred.ip = <<"r1">>
       /\ cred.cred.username = <<"admin">>
       /\ cred.cred.secret = <<"pw1">>

\* C7 (amended): with a realm table made of the line '*NET1;admin;ENC;*'
\* (the realm named as it is referenced) and a device table whose first
\* line is 'r1;;ios;*NET1;*NET1;*NET1', get_credentials('r1') returns
\* address r1 (defaulted), type ios, username admin, the decrypted password
\* and an enable-secret equal to it, on port 22.
C7_ScenarioA ==
  (pc # "gc_call" /\ variant \in {"pw", "SSH"} /\ store.env = "dir"
     /\ store.credentials = File(<<RealmOk>>)
     /\ store.deviceinfo.readable /\ Len(store.deviceinfo.lines) >= 1
     /\ store.deviceinfo.lines[1] = ScenarioDeviceRefs)
    => cred = RetCreds([ip |-> <<"r1">>, device_type |-> <<"ios">>,
                        username |-> <<"admin">>, password |-> <<"pw1">>,
                        secret |-> <<"pw1">>], 22)

C7_Witness ==
  /\ pc = "gc_returned" /\ variant = "pw"
  /\ store.credentials = File(<<RealmOk>>)
  /\ Len(store.deviceinfo.lines) = 2
  /\ store.deviceinfo.lines[1] = ScenarioDeviceRefs
  /\ cred.kind = "Creds" /\ cred.cred.secret = cred.cred.password

\* the realm table was read and is not empty
RealmsRead ==
  LET r == IF variant = "SNMP" THEN SNMP_read_credentials(store.credentials)
           ELSE read_credentials(store.credentials)
  IN r.exc = "" /\ ~r.val.none

\* the first line of the device table is the requested device's and one
\* of its secret fields resolves, without an error, to the empty text
FirstLineResolvesEmpty ==
  /\ store.env = "dir" /\ RealmsRead
  /\ store.deviceinfo.readable /\ Len(store.deviceinfo.lines) >= 1
  /\ LET f == split(rstripNL(lstrip(store.deviceinfo.lines[1])), ";")
         realms == IF variant = "SNMP"
                   THEN SNMP_read_credentials(store.credentials).val.realms
                   ELSE read_credentials(store.credentials).val.realms
     IN /\ f[1] = device
        /\ IF variant = "SNMP"
           THEN Len(f) = 4 /\ f[3] \in {<<>>, ENC(<<>>)} /\ ~startswith(f[4], "*")
           ELSE /\ Len(f) = 6
                /\ resolve_fields(variant, realms, f).exc = ""
                /\ \E k \in {"username", "password", "secret"} :
                     resolve_fields(variant, realms, f).val[k] = <<>>

\* C8: when the first line of the requested device resolves to an empty
\* username, password, enable-secret or community, get_credentials returns
\* the unresolved result (None or ''), never raising and never returning
\* credentials.
C8_EmptyFieldUnresolved ==
  (pc # "gc_call" /\ FirstLineResolvesEmpty) =>
    (cred.exc = "" /\ cred.kind \in {"None", "Empty"})

\* C9: when credential resolution fails (no store, unreadable file, device
\* not found, empty field) the run returns 11, with no log file created and
\* no connection attempted.
C9_CredentialFailureExits11 ==
  (cred.kind \in {"None", "Empty"} \/ cred.exc = "UnboundLocalError") =>
    (pc = "exit" /\ rc = ERR_CREDENTIALS /\ flog = "none" /\ nconn = 0)

\* C10: a token that fails to decrypt never aborts credential resolution:
\* get_credentials still returns a result.
C10_DecryptFailureContained ==
  pc # "gc_call" => cred.exc # "InvalidToken"
\* the realm dictionary read_credentials of the module in use returns
RealmsOf(v, file) ==
  IF v = "SNMP" THEN SNMP_read_credentials(file).val.realms
  ELSE read_credentials(file).val.realms

\* a well-formed, non-comment line of the device table that carries the id d
IsLineOf(v, line, d) ==
  LET curline == rstripNL(lstrip(line))
      n == count(curline, ";")
  IN /\ Len(curline) > 0 /\ ~startswith(curline, "#")
     /\ IF v = "SNMP" THEN n = 3 ELSE n \in {5, 6}
     /\ split(curline, ";")[1] = d

\* the first line of d in the table, as a table of its own (empty if none)
RECURSIVE FirstLineOf(_, _, _)
FirstLineOf(v, tablelines, d) ==
  IF tablelines = <<>> THEN <<>>
  ELSE IF IsLineOf(v, Head(tablelines), d) THEN <<Head(tablelines)>>
  ELSE FirstLineOf(v, Tail(tablelines), d)

\* C11: with a readable device table in which the requested device has a
\* line, get_credentials returns what it returns on a table made of the
\* device's first line alone: lines of other devices before it, whatever
\* their defects, are skipped and never make the call fail.
C11_OtherLinesSkipped ==
  (pc # "gc_call" /\ store.env = "dir" /\ RealmsRead /\ store.deviceinfo.readable
     /\ FirstLineOf(variant, store.deviceinfo.lines, device) # <<>>)
    => cred = resolve(variant,
                      [store EXCEPT !.deviceinfo.lines =
                         FirstLineOf(variant, store.deviceinfo.lines, device)],
                      device)

\* the first line of the table is the requested device's, one of its secret
\* fields is a reference to a realm the table of realms does not hold, and
\* nothing else is wrong with the line
FirstLineHasUnknownRealm ==
  /\ variant \in {"pw", "SSH"}
  /\ store.env = "dir" /\ RealmsRead
  /\ store.deviceinfo.readable /\ Len(store.deviceinfo.lines) >= 1
  /\ IsLineOf(variant, store.deviceinfo.lines[1], device)
  /\ LET f == split(rstripNL(lstrip(store.deviceinfo.lines[1])), ";")
         realms == RealmsOf(variant, store.credentials)
     IN /\ Len(f) = 6
        /\ \E k \in 4..6 : startswith(f[k], "*") /\ f[k] \notin DOMAIN realms
        /\ \A k \in 5..6 :
             (f[k] # <<>> /\ ~startswith(f[k], "*")) => decrypt_password(f[k]).exc = ""

\* C12: a secret field referring to a realm that the realm table does not
\* hold is taken as empty: get_credentials does not raise and returns the
\* unresolved result '' for the device.
C12_UnknownRealmUnresolved ==
  (pc # "gc_call" /\ FirstLineHasUnknownRealm) =>
    (cred.exc = "" /\ cred.kind = "Empty")

\* C13: the realm set read_credentials returns holds no partial realm: no
\* realm of it has an empty username, password, enable-secret, community
\* or port.
C13_NoPartialRealm ==
  (pc # "gc_call" /\ store.env = "dir" /\ RealmsRead) =>
    LET realms == RealmsOf(variant, store.credentials) IN
    \A name \in DOMAIN realms :
      \A k \in DOMAIN realms[name] : realms[name][k] # <<>>

\* a device line whose secret fields are all encrypted literals
LiteralDevice ==
  Line(<<<<"r1">>, <<"10.0.0.1">>, <<"ios">>, <<"admin">>, ENC(<<"pw2">>),
         ENC(<<"en2">>), <<"2222">>>>)

\* the realm file is readable and no realm is parsed from it
ZeroRealms ==
  /\ store.env = "dir" /\ store.credentials.readable
  /\ LET r == IF variant = "SNMP" THEN SNMP_realm_loop(<<>>, store.credentials.lines)
              ELSE realm_loop(<<>>, store.credentials.lines)
     IN r.exc = "" /\ DOMAIN r.val = {}

C20_NoStoreUnresolved ==
  (pc # "gc_call" /\ store.env \in {"unset", "nodir"}) =>
    (cred.exc = "" /\ cred.kind = "None")
LinePcs == {"banner", "password", "retry", "retry_poll", "returned",
            "disco_poll", "confirm_poll", "close"}

\* C15 (as stated): during a run of do_oob_device exactly one SSH session
\* is opened; the lines are handled over it and no connection is opened
\* for a line.
C15_OneSessionOnly ==
  prog = "oob" => nconn <= 1

\* C15 (amended): do_oob_device opens one primary SSH session, used for
\* 'show line' only, and connect() opens one more SSH connection for every
\* line it handles: with k lines walked, 1 + k connections have been opened
\* (one more while a line is being handled), 1 + the number of lines when
\* the run returns 0.
C15_OneConnectionPerLine ==
  prog = "oob" =>
    /\ pc \in {"showline", "walk", "line"} => nconn = 1 + Len(results)
    /\ pc \in LinePcs => nconn = 2 + Len(results)
    /\ (pc = "exit" /\ rc = ERR_NONE) => nconn = 1 + Len(lines)

C15_Witness ==
  /\ prog = "oob" /\ pc = "exit" /\ rc = ERR_NONE
  /\ Len(lines) = 2 /\ Len(results) = 2 /\ nconn = 3

\* C16: a chunk that cannot be decoded never ends the run: no run is
\* ended by a UnicodeDecodeError.
C16_DecodeNeverAborts ==
  pc = "crashed" => raised # "UnicodeDecodeError"

C18_ExistingLogRefused ==
  (logexists /\ pc \notin {"main", "start"}) =>
    /\ flog = "none" /\ cred = NotCalled /\ nattempt = 0 /\ nconn = 0
    /\ pc \in {"exit", "crashed"}
    /\ pc = "exit" => rc \in {ERR_SYNTAX, ERR_LOGFILE}
    /\ pc = "crashed" => (prog = "oob" /\ logfile = "" /\ raised = "NameError")

C18_Witness ==
  /\ logexists /\ prog = "oob" /\ logfile = "log"
  /\ pc = "exit" /\ rc = ERR_LOGFILE /\ flog = "none"

\* C19: when the run returns ERR_CONNECT (12), the primary session was
\* tried exactly once and not opened, and no console line was enumerated
\* or handled.
C19_ConnectFailure ==
  rc = ERR_CONNECT =>
    /\ pc = "exit"
    /\ nattempt = 1 /\ nconn = 0
    /\ lines = <<>> /\ results = <<>> /\ sent = <<>> /\ idx = 0

C19_Witness ==
  /\ prog = "oob" /\ pc = "exit" /\ rc = ERR_CONNECT
  /\ nattempt = 1 /\ nconn = 0 /\ flog = "open"

(***************************************************************************)
(* C21: the console-automation entry point accepts 'program deviceId' and  *)
(* 'program deviceId logfile': with the device id alone (two words on the  *)
(* command line) the run does not end with the syntax exit code 1 and      *)
(* goes on with a default log file name; with a log file argument (three   *)
(* words) it goes on using that name.                                      *)
(***************************************************************************)
C21_BothFormsAccepted ==
  prog = "oob" /\ pc # "main" =>
    /\ argc = 2 => ~(pc = "exit" /\ rc = ERR_SYNTAX) /\ logfile # ""
    /\ argc = 3 => ~(pc = "exit" /\ rc = ERR_SYNTAX) /\ logfile = "log"

\* the table up to and including the first line of d (all of it if none)
RECURSIVE ThroughFirstLineOf(_, _, _)
ThroughFirstLineOf(v, tablelines, d) ==
  IF tablelines = <<>> THEN <<>>
  ELSE IF IsLineOf(v, Head(tablelines), d) THEN <<Head(tablelines)>>
  ELSE <<Head(tablelines)>> \o ThroughFirstLineOf(v, Tail(tablelines), d)

\* the number of lines of d in the table
RECURSIVE NLinesOf(_, _, _)
NLinesOf(v, tablelines, d) ==
  IF tablelines = <<>> THEN 0
  ELSE (IF IsLineOf(v, Head(tablelines), d) THEN 1 ELSE 0)
       + NLinesOf(v, Tail(tablelines), d)

(***************************************************************************)
(* C22: when several lines of the device table carry the requested device  *)
(* id, the first of them in file order decides the result of               *)
(* read_deviceinfo() and no line after it is parsed, decrypted or looked   *)
(* up: the call returns (or raises) exactly what it does on the table cut  *)
(* off after that first line, whatever the lines after it hold.            *)
(***************************************************************************)
C22_FirstLineWins ==
  (pc # "gc_call" /\ store.env = "dir" /\ RealmsRead /\ store.deviceinfo.readable
     /\ NLinesOf(variant, store.deviceinfo.lines, device) >= 1)
    => cred = resolve(variant,
                      [store EXCEPT !.deviceinfo.lines =
                         ThroughFirstLineOf(variant, store.deviceinfo.lines, device)],
                      device)

\* two lines of the device that resolve differently; the first one decided
C22_Witness ==
  /\ pc = "gc_returned" /\ variant \in {"pw", "SSH"}
  /\ store.env = "dir" /\ store.credentials = File(<<RealmOk>>)
  /\ store.deviceinfo = File(<<ScenarioDeviceRefs, LiteralDevice>>)
  /\ NLinesOf(variant, store.deviceinfo.lines, device) = 2
  /\ cred.kind = "Creds" /\ cred.port = 22
  /\ cred # resolve(variant, [store EXCEPT !.deviceinfo.lines = <<LiteralDevice>>],
                    device)

\* a row that names a console line: it has the marker and a slot/port Tty
Qualifies(r) == r.typ = "TTY" /\ \E k \in 1..Len(r.tty) : r.tty[k] = "/"

\* the id of a row: 2000 + the Roty column, or the Line column when Roty is '-'
IdOf(r) == 2000 + Digits[IF r.roty = "-" THEN r.line ELSE r.roty]

(***************************************************************************)
(* C23: the console-line enumeration yields exactly this mapping: each     *)
(* reply row that contains 'TTY' and whose interface 'As'+<Tty column>     *)
(* has a '/' maps the id 2000 + rotary index (the Line column's number     *)
(* when the Roty column is '-': line 5 gives 2005) to that interface;      *)
(* rows without the marker or without '/' give nothing; when two rows      *)
(* give the same id the later row's interface stands; ids are unique and   *)
(* keep the order in which the rows first gave them.                       *)
(***************************************************************************)
C23_LineMapping ==
  (pc = "fn_done" /\ fn = "show_line") =>
    /\ res.exc = ""
    /\ \A k \in 1..Len(res.val) :
         \E j \in 1..Len(arg) :
           /\ Qualifies(arg[j]) /\ IdOf(arg[j]) = res.val[k].line
           /\ res.val[k].interface = <<"As">> \o arg[j].tty
           /\ \A j2 \in (j + 1)..Len(arg) :
                Qualifies(arg[j2]) => IdOf(arg[j2]) # res.val[k].line
    /\ \A j \in 1..Len(arg) :
         Qualifies(arg[j]) => \E k \in 1..Len(res.val) : res.val[k].line = IdOf(arg[j])
    /\ \A k1, k2 \in 1..Len(res.val) :
         k1 < k2 =>
           /\ res.val[k1].line # res.val[k2].line
           /\ \E j1, j2 \in 1..Len(arg) :
                /\ j1 < j2
                /\ Qualifies(arg[j1]) /\ IdOf(arg[j1]) = res.val[k1].line
                /\ Qualifies(arg[j2]) /\ IdOf(arg[j2]) = res.val[k2].line
                /\ \A j \in 1..(j2 - 1) :
                     Qualifies(arg[j]) => IdOf(arg[j]) # res.val[k2].line

\* line 5 with Roty '-' gave 2005, and two rows gave 2001: the later stands
C23_Witness ==
  /\ pc = "fn_done" /\ fn = "show_line" /\ Len(arg) = 3
  /\ arg[1].line = "1" /\ arg[1].roty = "-"
  /\ arg[2].line = "5" /\ arg[2].roty = "-"
  /\ arg[3].line = "2" /\ arg[3].roty = "1"
  /\ res.val = << [line |-> 2001, interface |-> <<"As", "0", "/", "2">>],
                  [line |-> 2005, interface |-> <<"As", "0", "/", "5">>] >>

(***************************************************************************)
(* C24: for every secret s, decrypt_password applied to the text of the    *)
(* token encrypt_password(s) produced returns s, in each credential module *)
(* (they all hold the key pwencrypt.py seals with).                        *)
(***************************************************************************)
C24_RoundTrip ==
  (pc = "fn_done" /\ fn = "decrypt_password") =>
    \A m \in {"pw", "SSH", "SNMP"} : res[m].exc = "" /\ res[m].val = arg

\* a secret with a character outside ASCII and a field separator
C24_Witness ==
  /\ pc = "fn_done" /\ fn = "decrypt_password"
  /\ arg = <<"U+00FC", ";">>
  /\ encrypt_password(arg) # <<"gAAAAA", pwencrypt_CRYPTKEY>> \o arg
  /\ res.pw = Ok(arg)

(***************************************************************************)
(* C25: interface-name normalization is idempotent: for every interface    *)
(* name n, short_ifName(short_ifName(n)) = short_ifName(n), in             *)
(* get-snmp-mac.py and in get-snmp-arp.py.                                 *)
(***************************************************************************)
C25_Idempotent ==
  (pc = "fn_done" /\ fn = "short_ifName") =>
    /\ short_ifName(res.mac) = res.mac
    /\ arp_short_ifName(res.arp) = res.arp

\* the password as the line's channel gets it
Password == PwMsg(cred.cred.password)

\* receive() is running on the current line
InReceive == pc \in {"banner", "password", "retry", "retry_poll"}

\* steps receive() can still take, at most, from where it is
StepsLeft ==
  CASE pc = "banner" -> 40 - 2 * i
    [] pc = "password" -> 39 - 2 * i
    [] pc = "retry" -> 30 - 4 * tries
    [] pc = "retry_poll" -> 29 - 4 * tries - i
    [] OTHER -> 0

(***************************************************************************)
(* C26: receive() ends on a line after at most 3 one-second banner waits   *)
(* and at most 6 x 3 two-second retry waits: no line spends more than 39   *)
(* seconds of polling sleeps in receive().                                 *)
(***************************************************************************)
C26_AtMost39Seconds == slept <= 39

(***************************************************************************)
(* C26, as the code has it: after each password it sends (one per banner   *)
(* poll that brought 'assword:', so up to 3) receive() waits one more      *)
(* second.  The seconds slept are the banner polls made, plus one per      *)
(* password sent, plus two per retry poll: at most 3 + 3 + 36 = 42; and    *)
(* every step of receive() brings it nearer to its end.                    *)
(***************************************************************************)
C26_AtMost42Seconds ==
  /\ [](/\ slept <= 3 + count(sent, Password) + 36
        /\ count(sent, Password) <= 3
        /\ slept <= 42
        /\ InReceive => i <= 3 /\ tries <= 6 /\ StepsLeft > 0)
  /\ [][InReceive => StepsLeft' < StepsLeft]_vars

\* three password prompts, then silence: receive() gave up after 42 seconds
C26_Witness ==
  /\ pc = "returned" /\ outcome = "Timeout"
  /\ count(sent, Password) = 3 /\ tries = 6
  /\ slept = 42

\* received chunks joined in the order they came
RECURSIVE Joined(_)
Joined(chunks) ==
  IF chunks = <<>> THEN <<>> ELSE Head(chunks) \o Joined(Tail(chunks))

\* the chunks as text: a chunk that is not valid UTF-8 gives the placeholder
AsText(chunks) ==
  [k \in 1..Len(chunks) |->
     IF decode(chunks[k]).exc # "" THEN Placeholder ELSE chunks[k]]

\* receive() returned from its retry loop
ReturnedFromRetry == pc = "returned" /\ outcome \in {"Success", "Timeout"}

(***************************************************************************)
(* C27: whenever receive() returns from the retry loop, the output it      *)
(* returns equals the concatenation, in arrival order, of all chunks       *)
(* received on the channel during the retry loop: nothing dropped,         *)
(* duplicated or reordered.                                                *)
(***************************************************************************)
C27_ExactConcatenation == ReturnedFromRetry => ret = Joined(rchunks)

(***************************************************************************)
(* C27, as the code has it: the output returned is the concatenation, in   *)
(* arrival order, of the texts of the chunks read in the retry loop, where *)
(* the text of a chunk that is not valid UTF-8 is the placeholder          *)
(* '!!! error non-Unicode character in output' and not the chunk.          *)
(***************************************************************************)
C27_DecodedConcatenation ==
  /\ ReturnedFromRetry => ret = Joined(AsText(rchunks))
  /\ pc \in {"retry", "retry_poll"} => output = Joined(AsText(rchunks))

\* two chunks came in the retry loop, the first of them undecodable
C27_Witness ==
  /\ ReturnedFromRetry /\ Len(rchunks) = 2
  /\ rchunks[1] = <<NonUnicode>> /\ rchunks[2] = <<"ogin:">>
  /\ ret = Placeholder \o <<"ogin:">>

(***************************************************************************)
(* C28: while receive() handles a line, the line's password is sent at     *)
(* most once, and only directly after a banner chunk containing            *)
(* 'assword:' was received; after it is sent exactly one further poll is   *)
(* read and appended to the banner.                                        *)
(***************************************************************************)
C28_PasswordAtMostOnce ==
  /\ [](count(sent, Password) <= 1)
  /\ [][count(sent', Password) > count(sent, Password) =>
          /\ pc = "banner" /\ pc' = "password"
          /\ sent' = Append(sent, Password)
          /\ \E c \in Chunks : Contains(assword, c) /\ banner' = banner \o c]_vars
  /\ [][pc = "password" =>
          \/ pc' = "crashed"
          \/ /\ pc' = "banner" /\ i' = i + 1 /\ sent' = sent
             /\ \/ banner' = banner /\ nrecv' = nrecv
                \/ nrecv' = nrecv + 1 /\ \E c \in Chunks : banner' = banner \o c]_vars

(***************************************************************************)
(* C28, as the code has it: the password is sent once for every banner     *)
(* poll whose chunk contains 'assword:', so up to 3 times on a line, each  *)
(* time directly after that chunk was received and appended to the         *)
(* banner; after each sending exactly one further poll is made and what    *)
(* it reads, if anything, is appended to the banner.                       *)
(***************************************************************************)
C28_PasswordPerPrompt ==
  /\ [](/\ count(sent, Password) <= 3
        /\ count(sent, Password) > 0 => Contains(assword, banner)
        /\ pc = "password" => sent[Len(sent)] = Password)
  /\ [][count(sent', Password) > count(sent, Password) =>
          /\ pc = "banner" /\ pc' = "password"
          /\ sent' = Append(sent, Password)
          /\ \E c \in Chunks : Contains(assword, c) /\ banner' = banner \o c]_vars
  /\ [][pc = "password" =>
          \/ pc' = "crashed"
          \/ /\ pc' = "banner" /\ i' = i + 1 /\ sent' = sent
             /\ \/ banner' = banner /\ nrecv' = nrecv
                \/ nrecv' = nrecv + 1 /\ \E c \in Chunks : banner' = banner \o c]_vars

\* the line asked for the password three times and got it three times
C28_Witness ==
  /\ pc = "banner" /\ i = 3 /\ count(sent, Password) = 3
  /\ banner = assword \o assword \o assword

(***************************************************************************)
(* C29: in connect() the disconnect sub-protocol sends its messages in a   *)
(* fixed order: the escape sequence strictly before the disconnect         *)
(* command, then up to 2 polls one second apart; an acknowledgement        *)
(* newline is sent, followed by exactly one more poll, if and only if the  *)
(* text received in those polls contains '[confirm]'; and the session is   *)
(* closed afterwards in every case: once begun, the sub-protocol is only   *)
(* left through ssh.close().                                               *)
(***************************************************************************)
C29_DisconnectProtocol ==
  /\ [][(pc = "returned" /\ pc' = "disco_poll") =>
          sent' = sent \o <<EscapeMsg, DiscoMsg>> /\ prompt' = <<>>]_vars
  /\ [](pc = "disco_poll" =>
          /\ i <= 2 /\ HasDisconnect(sent)
          /\ sent[Len(sent)] = DiscoMsg /\ sent[Len(sent) - 1] = EscapeMsg)
  /\ [][(pc = "disco_poll" /\ pc' # "disco_poll") =>
          /\ i = 2
          /\ IF Contains(confirm, prompt)
             THEN pc' = "confirm_poll" /\ sent' = Append(sent, NewlineMsg)
             ELSE pc' = "close" /\ sent' = sent]_vars
  /\ [][pc = "confirm_poll" =>
          pc' = "close" /\ sent' = sent /\ nrecv' <= nrecv + 1]_vars
  /\ [][InDisconnect => pc' # "crashed"]_vars

\* standard output is back on its original stream and the log file closed
Restored == stdout = "tty" /\ flog = "closed"

(***************************************************************************)
(* C30: on every path by which do_oob_device() returns after it created    *)
(* the log file and redirected standard output to it (successful           *)
(* completion and primary-connection failure alike), standard output has   *)
(* been restored to its original stream and the log file has been closed;  *)
(* likewise for do_device() once it has redirected standard output.        *)
(***************************************************************************)
C30_StdoutRestored ==
  pc = "exit" =>
    /\ (prog = "oob" /\ flog # "none") => Restored
    /\ (prog = "dev" /\ flog # "none" /\ nconn > 0) => Restored

=============================================================================
